---- MODULE Spec2Model ----
(***************************************************************************)
(* The runner assignment engine of functions/index.js: the Firestore       *)
(* triggers that assign a runner to an order, keep the runners' counters   *)
(* and reset them.  The file holds two revisions of the engine one after   *)
(* the other: the creation-trigger revision (lines 1-515) and the earlier  *)
(* ready-trigger revision (lines 516-871).  rev says which one is          *)
(* deployed.                                                               *)
(*                                                                         *)
(* The store is linearizable per request: every step of a handler is one   *)
(* store request (a get, a query, an update or a batch commit), together   *)
(* with the local computation that follows it up to the next await.        *)
(* Handlers of different events interleave at these requests.  Every write *)
(* emits a change event (before, after) to each handler the deployed       *)
(* revision registers for the document; an event may be delivered again.   *)
(***************************************************************************)
EXTENDS Integers, Sequences, FiniteSets, Bags, TLC

VARIABLES rev, flagged, orders, runners, procs, alerts, selected, budget, last,
          overlapped, notices, failures, menu, job

vars == <<rev, flagged, orders, runners, procs, alerts, selected, budget, last,
          overlapped, notices, failures, menu, job>>

\* Bounds of the model: the documents, and how many writes of each kind come
\* from outside the engine (budget counts down from them).
NumRunners == 3
NumOrders == 6
MaxCreates == 1
MaxStatusWrites == 3
MaxToggles == 1
MaxResets == 1
MaxRedeliver == 2
\* A write from outside comes while fewer than this many invocations are
\* pending or running.
MaxConcurrent == 2
\* The creations of the specification of two racing orders.
RaceCreates == 2
\* The runners that go on duty: the others stay off duty throughout.
MaxOnDuty == 2
\* The runs of the scheduled resets in the specification of the resets.
ResetRuns == 2
\* The store failures in the specification of the aborted assignment.
MaxAborts == 1
\* The restaurants, and the places of each restaurant's menu.
NumRestaurants == 2
NumMenuItems == 2

\* Program constants.
ConflictWindow == 60
BatchCap == 5
ActiveCap == 5

Runners == 1..NumRunners
Restaurants == 1..NumRestaurants
MenuItems == 1..NumMenuItems
Orders == 1..NumOrders
NoRunner == 0

Revisions == {"created", "ready"}

\* Delivery times, as the characters of the "HH:MM" strings.
T1200 == <<"1", "2", ":", "0", "0">>
T1230 == <<"1", "2", ":", "3", "0">>
T1300 == <<"1", "3", ":", "0", "0">>
DeliveryTimes == {T1200, T1230, T1300}

\* The times of the selector's specification: two more, on the two sides of
\* midnight.
T2330 == <<"2", "3", ":", "3", "0">>
T0015 == <<"0", "0", ":", "1", "5">>
ClockTimes == DeliveryTimes \cup {T2330, T0015}

\* Strings that are not HH:MM times: a word, a time without its colon, and a
\* time without its minutes.
TNoon == <<"n", "o", "o", "n">>
T1200NoColon == <<"1", "2", "0", "0">>
T12Colon == <<"1", "2", ":">>
MalformedTimes == {TNoon, T1200NoColon, T12Colon}

\* The list without its first element.
ActiveStatusesAfterReceived == {"ready", "picked"}

\* where('orderStatus', 'in', ['received', 'ready', 'picked'])
ActiveStatuses == {"received", "ready", "picked"}

\* An order document that does not exist (the before side of a create event).
NoOrder == [status |-> "absent", deliveryTime |-> <<>>, runner |-> NoRunner,
            waiting |-> FALSE, restaurant |-> FALSE]

\* waiting is TRUE when the field waitingForRunner is present (the code only
\* ever writes true to it) and FALSE when the field is absent.  The ordering
\* flow is not part of the repository: w says whether it writes the field.
\* restaurant says whether the document the order's restaurant field
\* references exists.
NewOrder(t, w) == [status |-> "received", deliveryTime |-> t, runner |-> NoRunner,
                   waiting |-> w, restaurant |-> TRUE]

\* exists says whether the runner's document exists, and fcmToken whether it
\* holds a device token.
NewRunner(a) == [isActive |-> a, activeOrders |-> 0, completedOrders |-> 0,
                 totalCompletedOrders |-> 0, orders |-> {}, exists |-> TRUE,
                 fcmToken |-> TRUE]

-----------------------------------------------------------------------------
(* String to number, as split(':').map(Number) computes it.  A number is a  *)
(* set: {v} for the value v and {} for NaN, so that arithmetic on NaN is    *)
(* NaN and every comparison with NaN is false.                              *)

Digits == {"0", "1", "2", "3", "4", "5", "6", "7", "8", "9"}

DigitVal(c) ==
    CASE c = "0" -> 0 [] c = "1" -> 1 [] c = "2" -> 2 [] c = "3" -> 3
      [] c = "4" -> 4 [] c = "5" -> 5 [] c = "6" -> 6 [] c = "7" -> 7
      [] c = "8" -> 8 [] c = "9" -> 9

RECURSIVE Split(_)
Split(s) ==
    IF \A i \in 1..Len(s) : s[i] # ":"
    THEN <<s>>
    ELSE LET i == CHOOSE k \in 1..Len(s) :
                      s[k] = ":" /\ \A j \in 1..(k - 1) : s[j] # ":"
         IN  <<SubSeq(s, 1, i - 1)>> \o Split(SubSeq(s, i + 1, Len(s)))

RECURSIVE Decimal(_)
Decimal(s) ==
    IF s = <<>> THEN 0
    ELSE Decimal(SubSeq(s, 1, Len(s) - 1)) * 10 + DigitVal(s[Len(s)])

\* Number(""), is 0; a string of digits is its value; the other strings drawn
\* here (letters) are NaN.
Number(s) == IF \A i \in 1..Len(s) : s[i] \in Digits THEN {Decimal(s)} ELSE {}

\* const [h, m] = t.split(':').map(Number); h * 60 + m.  A missing second
\* element is undefined, and arithmetic on it is NaN.
TotalMinutes(t) ==
    LET parts == Split(t)
        h == Number(parts[1])
        m == IF Len(parts) >= 2 THEN Number(parts[2]) ELSE {}
    IN  {x * 60 + y : x \in h, y \in m}

Abs(x) == IF x < 0 THEN 0 - x ELSE x

\* The comparison with <= in the place of <.
WithinWindowInclusive(t1, t2) ==
    \E x \in TotalMinutes(t1), y \in TotalMinutes(t2) : Abs(x - y) <= ConflictWindow

\* Math.abs(newTotalMinutes - orderTotalMinutes) < 60
WithinWindow(t1, t2) ==
    \E x \in TotalMinutes(t1), y \in TotalMinutes(t2) : Abs(x - y) < ConflictWindow

\* The orders query without its filter on orderStatus.
runnerHasConflictingDeliveryAnyStatus(r, t) ==
    \E o \in Orders :
        /\ orders[o].runner = r
        /\ WithinWindow(t, orders[o].deliveryTime)

\* The orders query of runnerHasConflictingDelivery and its some(...).
runnerHasConflictingDelivery(r, t) ==
    \E o \in Orders :
        /\ orders[o].runner = r
        /\ orders[o].status \in ActiveStatuses
        /\ WithinWindow(t, orders[o].deliveryTime)

-----------------------------------------------------------------------------
(* Handler invocations.  procs is the bag of the invocations pending or     *)
(* running, last is the invocation that took the last step (Env when the    *)
(* step was a write from outside), selected[o] is what the runner selector  *)
(* last returned for order o, and overlapped says whether an order was      *)
(* created while the creation handler of an earlier order had not ended.    *)
(* notices holds the orders a runner notification was requested for, and    *)
(* failures the invocations, <<handler, document>>, that ended in a failure. *)

\* One invocation of handler h on the event (before, after) of document id.
\* snap, todo, free, sel, read, batch and token are the handler's local
\* variables; stale records whether the stored order had a runner already
\* when the creation handler passed its guard.
NewProc(h, id, before, after) ==
    [h |-> h, id |-> id, before |-> before, after |-> after, pc |-> "start",
     dup |-> FALSE, snap |-> {}, todo |-> {}, free |-> {}, sel |-> NoRunner,
     read |-> 0, batch |-> {}, token |-> FALSE, stale |-> FALSE]

\* What last keeps of the invocation p that takes a step: its handler, its
\* document, where it was, whether its event had been processed before, and
\* whether the two snapshots of its event are equal.
Actor(p) == [h |-> p.h, id |-> p.id, pc |-> p.pc, dup |-> p.dup,
             same |-> (p.before = p.after)]

\* last when the step was not a handler's.
Env == [h |-> "env", id |-> 0, pc |-> "start", dup |-> FALSE, same |-> FALSE]

\* The handlers each revision exports.
OrderCreateHandlers ==
    IF rev = "created" THEN {"assignRunnerOnOrderCreated"} ELSE {}

OrderUpdateHandlers ==
    IF rev = "created"
    THEN {"onRunnerAssignedToOrder", "updateRunnerOnOrderDelivered"}
    ELSE {"assignRunnerOnOrderReady", "updateRunnerOnOrderDelivered"}

RunnerUpdateHandlers ==
    IF rev = "created" THEN {} ELSE {"assignOrdersWhenRunnerActivates"}

\* The notification handler of order updates (the earlier revision registers
\* its sendRunnerNotification for creations).  It writes nothing to the store
\* and is specified apart from the engine's handlers.
OrderUpdateNotifiers ==
    IF rev = "created" THEN {"sendRunnerNotification"} ELSE {}

\* The invocations a write to an order, or to a runner, triggers.
OrderCreated(o, a) ==
    SetToBag({NewProc(h, o, NoOrder, a) : h \in OrderCreateHandlers})

OrderUpdated(o, b, a) ==
    SetToBag({NewProc(h, o, b, a) : h \in OrderUpdateHandlers})

RunnerUpdated(r, b, a) ==
    SetToBag({NewProc(h, r, b, a) : h \in RunnerUpdateHandlers})

\* The guards the handlers put on their event.
CreatedGuard(p) == p.after.runner = NoRunner

\* The guard without its test of the before snapshot.
AssignedGuardAfterOnly(p) == p.after.runner # NoRunner

AssignedGuard(p) == p.before.runner = NoRunner /\ p.after.runner # NoRunner

\* The guard taking every closing status for a delivery.
DeliveredGuardAnyClosing(p) ==
    /\ p.before.status # "delivered"
    /\ p.after.status \in {"delivered", "completed", "cancelled"}
    /\ p.after.runner # NoRunner

DeliveredGuard(p) ==
    /\ p.before.status # "delivered"
    /\ p.after.status = "delivered"
    /\ p.after.runner # NoRunner

ReadyGuard(p) ==
    /\ p.after.status = "ready"
    /\ p.before.status # "ready"
    /\ p.after.runner = NoRunner

\* The guard without its test of the before snapshot.
NotifyGuardAfterOnly(p) == p.after.runner # NoRunner

\* if (!before.runner && after.runner)
NotifyGuard(p) == p.before.runner = NoRunner /\ p.after.runner # NoRunner

\* The guard without its comparison of the two snapshots.
ActivatesGuardAfterOnly(p) == p.after.isActive = TRUE

ActivatesGuard(p) ==
    p.before.isActive # p.after.isActive /\ p.after.isActive = TRUE

Guard(p) ==
    CASE p.h = "assignRunnerOnOrderCreated" -> CreatedGuard(p)
      [] p.h = "onRunnerAssignedToOrder" -> AssignedGuard(p)
      [] p.h = "updateRunnerOnOrderDelivered" -> DeliveredGuard(p)
      [] p.h = "assignRunnerOnOrderReady" -> ReadyGuard(p)
      [] p.h = "assignOrdersWhenRunnerActivates" -> ActivatesGuard(p)
      [] p.h = "sendRunnerNotification" -> NotifyGuard(p)

Pending == BagToSet(procs)

\* An invocation whose guard fails returns without a store request.  Its
\* return commutes with every other step, so it is taken first.
Returning == {p \in Pending : p.pc = "start" /\ ~Guard(p)}

\* p moves on to q.
Step(p, q) == (procs (-) SetToBag({p})) (+) SetToBag({q})

\* p ends.  A further delivery of p's event that has not started yet is from
\* now on a delivery of an event already processed (dup).
Finish(b, p) ==
    LET rest == b (-) SetToBag({p})
        again == NewProc(p.h, p.id, p.before, p.after)
        k == CopiesIn(again, rest)
    IN  IF k > 0
        THEN (rest (-) [x \in {again} |-> k]) (+) [x \in {[again EXCEPT !.dup = TRUE]} |-> k]
        ELSE rest

-----------------------------------------------------------------------------
(* The menus and the scheduled job that resets them.  menu[r][i] is the     *)
(* item at place i of the menu subcollection of restaurant r, job the       *)
(* invocation of resetAvailability.                                         *)

\* A place of a menu that holds no item.
NoItem == [exists |-> FALSE, isAvailable |-> FALSE]

\* A menu item, with its availability.isAvailable.
Item(a) == [exists |-> TRUE, isAvailable |-> a]

NoMenu == [r \in Restaurants |-> [i \in MenuItems |-> NoItem]]

\* The references of the items of the menu of restaurant r.
ItemRefs(r) == {<<r, i>> : i \in {i \in MenuItems : menu[r][i].exists}}

\* The job before the scheduler starts it.  gets holds the restaurants whose
\* menuRef.get() is outstanding, batch the references the batch holds an
\* update for, committed whether batch.commit() has been called, thrown the
\* restaurants whose callback threw, and logged what the job has logged.
NoJob == [pc |-> "idle", gets |-> {}, batch |-> {}, committed |-> FALSE,
          thrown |-> {}, logged |-> "nothing"]

-----------------------------------------------------------------------------
\* An empty orders collection, and runners on or off duty with no order yet.
Store ==
    /\ orders = [o \in Orders |-> NoOrder]
    /\ runners \in [Runners -> {NewRunner(a) : a \in BOOLEAN}]
    /\ \A r \in Runners : r > MaxOnDuty => ~runners[r].isActive
    /\ procs = EmptyBag
    /\ alerts = {}
    /\ selected = [o \in Orders |-> NoRunner]
    /\ last = Env
    /\ overlapped = FALSE
    /\ notices = {}
    /\ failures = {}
    /\ menu = NoMenu
    /\ job = NoJob

\* The writes from outside still to come.
InitBudget == [creates |-> MaxCreates, statuses |-> MaxStatusWrites,
               toggles |-> MaxToggles, resets |-> MaxResets,
               redeliveries |-> MaxRedeliver, aborts |-> 0]

Init ==
    /\ rev \in Revisions
    /\ flagged \in BOOLEAN
    /\ Store
    /\ budget = InitBudget

\* No write from outside is to come.
NoBudget == [creates |-> 0, statuses |-> 0, toggles |-> 0, resets |-> 0,
             redeliveries |-> 0, aborts |-> 0]

\* Two orders created one right after the other, in the creation-trigger
\* revision.
InitRace ==
    /\ rev = "created"
    /\ flagged = FALSE
    /\ Store
    /\ budget = [NoBudget EXCEPT !.creates = RaceCreates]


\* The counters <<activeOrders, completedOrders>> of a runner that has worked
\* before, and the runner's document.
RunnerLoads == {<<2, 5>>, <<1, 9>>, <<1, 3>>}

RunnerDoc(a, l, os) ==
    [isActive |-> a, activeOrders |-> l[1], completedOrders |-> l[2],
     totalCompletedOrders |-> l[2], orders |-> os, exists |-> TRUE,
     fcmToken |-> TRUE]

\* An order assigned to runner r earlier.
Assigned(s, t, r) ==
    [status |-> s, deliveryTime |-> t, runner |-> r, waiting |-> FALSE,
     restaurant |-> TRUE]

\* The selector's specification: order 2 was assigned earlier, to any runner,
\* and is undelivered or delivered; order 1 has just been created and its
\* created event is pending.
InitSelect ==
    /\ rev = "created"
    /\ flagged = FALSE
    /\ \E t \in {T1200, T0015}, u \in ClockTimes, s \in {"received", "delivered"},
          c \in Runners, a \in [Runners -> BOOLEAN], l \in [Runners -> RunnerLoads] :
          /\ orders = [o \in Orders |->
                         CASE o = 1 -> NewOrder(t, FALSE)
                           [] o = 2 -> Assigned(s, u, c)
                           [] OTHER -> NoOrder]
          /\ runners = [r \in Runners |->
                          RunnerDoc(a[r], l[r], IF r = c THEN {2} ELSE {})]
          /\ procs = OrderCreated(1, NewOrder(t, FALSE))
    /\ alerts = {}
    /\ selected = [o \in Orders |-> NoRunner]
    /\ last = Env
    /\ overlapped = FALSE
    /\ notices = {}
    /\ failures = {}
    /\ menu = NoMenu
    /\ job = NoJob
    /\ budget = NoBudget

\* The resets' specification: runners that have worked before, an undelivered
\* order with runner 1, and the scheduler about to run.
InitReset ==
    /\ rev \in Revisions
    /\ flagged = FALSE
    /\ orders = [o \in Orders |->
                   IF o = 1 THEN Assigned("received", T1200, 1) ELSE NoOrder]
    /\ \E a \in [Runners -> BOOLEAN], l \in [Runners -> RunnerLoads] :
          runners = [r \in Runners |->
                       RunnerDoc(a[r], l[r], IF r = 1 THEN {1} ELSE {})]
    /\ procs = EmptyBag
    /\ alerts = {}
    /\ selected = [o \in Orders |-> NoRunner]
    /\ last = Env
    /\ overlapped = FALSE
    /\ notices = {}
    /\ failures = {}
    /\ menu = NoMenu
    /\ job = NoJob
    /\ budget = [NoBudget EXCEPT !.resets = ResetRuns]

\* The counters of a runner off duty: none yet, or those of earlier work.
ActivationLoads == {<<0, 0>>, <<2, 5>>}

\* The activation's specification, in the ready-trigger revision: the first
\* orders of the collection wait for a runner, received or ready, and every
\* runner is off duty.
InitActivate ==
    /\ rev = "ready"
    /\ flagged = TRUE
    /\ \E w \in 0..NumOrders, s \in {"received", "ready"} :
          orders = [o \in Orders |->
                      IF o <= w THEN [NewOrder(T1200, TRUE) EXCEPT !.status = s]
                      ELSE NoOrder]
    /\ \E l \in [1..MaxOnDuty -> ActivationLoads] :
          runners = [r \in Runners |->
                       IF r <= MaxOnDuty THEN RunnerDoc(FALSE, l[r], {})
                       ELSE NewRunner(FALSE)]
    /\ procs = EmptyBag
    /\ alerts = {}
    /\ selected = [o \in Orders |-> NoRunner]
    /\ last = Env
    /\ overlapped = FALSE
    /\ notices = {}
    /\ failures = {}
    /\ menu = NoMenu
    /\ job = NoJob
    /\ budget = [NoBudget EXCEPT !.toggles = MaxToggles]

\* The specification of the ready trigger's selector, in the ready-trigger
\* revision: order 1 has just turned ready without a runner and its update
\* event is pending; order 2, undelivered and for the same time, is with any
\* runner; the runners have worked before.
InitLeast ==
    /\ rev = "ready"
    /\ flagged = FALSE
    /\ \E c \in Runners, a \in [Runners -> BOOLEAN], l \in [Runners -> RunnerLoads] :
          LET after == [NewOrder(T1200, FALSE) EXCEPT !.status = "ready"]
          IN  /\ orders = [o \in Orders |->
                             CASE o = 1 -> after
                               [] o = 2 -> Assigned("received", T1200, c)
                               [] OTHER -> NoOrder]
              /\ runners = [r \in Runners |->
                              RunnerDoc(a[r], l[r], IF r = c THEN {2} ELSE {})]
              /\ procs = OrderUpdated(1, NewOrder(T1200, FALSE), after)
    /\ alerts = {}
    /\ selected = [o \in Orders |-> NoRunner]
    /\ last = Env
    /\ overlapped = FALSE
    /\ notices = {}
    /\ failures = {}
    /\ menu = NoMenu
    /\ job = NoJob
    /\ budget = NoBudget

\* The specification of the malformed delivery time: as the selector's, with
\* order 1 created with a string that is not a time and order 2 undelivered
\* at 12:00.
InitMalformed ==
    /\ rev = "created"
    /\ flagged = FALSE
    /\ \E t \in MalformedTimes, c \in Runners, a \in [Runners -> BOOLEAN],
          l \in [Runners -> RunnerLoads] :
          /\ orders = [o \in Orders |->
                         CASE o = 1 -> NewOrder(t, FALSE)
                           [] o = 2 -> Assigned("received", T1200, c)
                           [] OTHER -> NoOrder]
          /\ runners = [r \in Runners |->
                          RunnerDoc(a[r], l[r], IF r = c THEN {2} ELSE {})]
          /\ procs = OrderCreated(1, NewOrder(t, FALSE))
    /\ alerts = {}
    /\ selected = [o \in Orders |-> NoRunner]
    /\ last = Env
    /\ overlapped = FALSE
    /\ notices = {}
    /\ failures = {}
    /\ menu = NoMenu
    /\ job = NoJob
    /\ budget = NoBudget

\* The specification of the creation of an order, in the creation-trigger
\* revision: the last order of the collection is with runner 1 for 12:30,
\* undelivered or delivered, and the runners are on or off duty.
InitCreated ==
    /\ rev = "created"
    /\ flagged = FALSE
    /\ \E s \in {"received", "delivered"} :
          orders = [o \in Orders |->
                      IF o = NumOrders THEN Assigned(s, T1230, 1) ELSE NoOrder]
    /\ \E a \in [Runners -> BOOLEAN] :
          /\ \A r \in Runners : r > MaxOnDuty => ~a[r]
          /\ runners = [r \in Runners |->
                          IF r = 1 THEN RunnerDoc(a[r], <<1, 3>>, {NumOrders})
                          ELSE NewRunner(a[r])]
    /\ procs = EmptyBag
    /\ alerts = {}
    /\ selected = [o \in Orders |-> NoRunner]
    /\ last = Env
    /\ overlapped = FALSE
    /\ notices = {}
    /\ failures = {}
    /\ menu = NoMenu
    /\ job = NoJob
    /\ budget = [NoBudget EXCEPT !.creates = MaxCreates]

\* The specification of the aborted assignment, in the creation-trigger
\* revision: one order is created and the store fails under its handler.
InitAbort ==
    /\ rev = "created"
    /\ flagged = FALSE
    /\ Store
    /\ budget = [NoBudget EXCEPT !.creates = MaxCreates, !.aborts = MaxAborts]

\* A runner whose document does not exist.
MissingRunner == [NewRunner(FALSE) EXCEPT !.exists = FALSE, !.fcmToken = FALSE]

\* The specification of the referenced documents: order 1 has just been
\* updated, from any runner field to runner 1 or to none, with or without its
\* delivery; the document of runner 1 exists or not, with or without a token,
\* and so does the restaurant's.  The handlers of the update are pending.
InitDocs ==
    /\ rev \in Revisions
    /\ flagged = FALSE
    /\ \E b \in Runners \cup {NoRunner}, a \in {NoRunner, 1},
          st \in {<<"received", "received">>, <<"picked", "delivered">>},
          doc \in {<<TRUE, TRUE>>, <<TRUE, FALSE>>, <<FALSE, FALSE>>},
          rs \in BOOLEAN :
          LET after == [Assigned(st[2], T1200, a) EXCEPT !.restaurant = rs]
              before == [after EXCEPT !.status = st[1], !.runner = b]
              R1 == IF doc[1]
                    THEN [RunnerDoc(TRUE, <<1, 3>>, {}) EXCEPT !.fcmToken = doc[2]]
                    ELSE MissingRunner
          IN  /\ orders = [o \in Orders |-> IF o = 1 THEN after ELSE NoOrder]
              /\ runners = [r \in Runners |-> IF r = 1 THEN R1 ELSE NewRunner(FALSE)]
              /\ procs = OrderUpdated(1, before, after) (+)
                           SetToBag({NewProc(h, 1, before, after) :
                                       h \in OrderUpdateNotifiers})
    /\ alerts = {}
    /\ selected = [o \in Orders |-> NoRunner]
    /\ last = Env
    /\ overlapped = FALSE
    /\ notices = {}
    /\ failures = {}
    /\ menu = NoMenu
    /\ job = NoJob
    /\ budget = NoBudget

\* orderStatus, as the applications write it.
OrderStatuses == {"received", "ready", "picked", "delivered", "completed", "cancelled"}

\* The specification of one order update: order 1 has just been updated from
\* any status, with runner 1 or none, to any status, with runner 1 or none;
\* runner 1 is on or off duty.  The handlers of the update are pending.
InitUpdate ==
    /\ rev \in Revisions
    /\ flagged = FALSE
    /\ \E sb \in OrderStatuses, sa \in OrderStatuses, b \in {NoRunner, 1},
          a \in {NoRunner, 1}, d \in BOOLEAN :
          LET after == Assigned(sa, T1200, a)
              before == Assigned(sb, T1200, b)
          IN  /\ orders = [o \in Orders |-> IF o = 1 THEN after ELSE NoOrder]
              /\ runners = [r \in Runners |->
                              IF r = 1
                              THEN RunnerDoc(d, <<1, 3>>, IF a = 1 THEN {1} ELSE {})
                              ELSE NewRunner(FALSE)]
              /\ procs = OrderUpdated(1, before, after)
    /\ alerts = {}
    /\ selected = [o \in Orders |-> NoRunner]
    /\ last = Env
    /\ overlapped = FALSE
    /\ notices = {}
    /\ failures = {}
    /\ menu = NoMenu
    /\ job = NoJob
    /\ budget = NoBudget

\* The kinds of write from outside, as the fields of budget.
WriteKinds == {"creates", "statuses", "toggles", "resets"}

\* The specification of the chain of one write: order 1 is picked and with
\* runner 1, who is on or off duty, below or at the cap; up to two orders
\* wait for a runner; runner 2 is on or off duty.  One write from outside is
\* to come, of any kind.
InitChain ==
    /\ rev \in Revisions
    /\ flagged \in BOOLEAN
    /\ \E w \in 0..2, d \in BOOLEAN, l \in {<<1, 3>>, <<5, 5>>}, e \in BOOLEAN :
          /\ orders = [o \in Orders |->
                         IF o = 1 THEN Assigned("picked", T1200, 1)
                         ELSE IF o <= 1 + w THEN NewOrder(T1300, TRUE)
                         ELSE NoOrder]
          /\ runners = [r \in Runners |->
                          CASE r = 1 -> RunnerDoc(d, l, {1})
                            [] r = 2 -> NewRunner(e)
                            [] OTHER -> NewRunner(FALSE)]
    /\ procs = EmptyBag
    /\ alerts = {}
    /\ selected = [o \in Orders |-> NoRunner]
    /\ last = Env
    /\ overlapped = FALSE
    /\ notices = {}
    /\ failures = {}
    /\ menu = NoMenu
    /\ job = NoJob
    /\ \E k \in WriteKinds : budget = [NoBudget EXCEPT ![k] = 1]

-----------------------------------------------------------------------------
(* Writes from outside the engine: the ordering flow, the restaurant's and  *)
(* the runner's applications, the scheduler.                                *)

Quiet == Returning = {}

Calm == BagCardinality(procs) < MaxConcurrent

\* The time of the first order is fixed and the later ones vary around it.
TimesOf(o) == IF o = 1 THEN {T1200} ELSE DeliveryTimes

\* The ordering flow creates the next order, without a runner.
CreateOrder(t) ==
    /\ Quiet
    /\ Calm
    /\ budget.creates > 0
    /\ budget' = [budget EXCEPT !.creates = @ - 1]
    /\ \E o \in Orders :
        /\ orders[o].status = "absent"
        /\ \A k \in 1..(o - 1) : orders[k].status # "absent"
        /\ t \in TimesOf(o)
        /\ orders' = [orders EXCEPT ![o] = NewOrder(t, flagged)]
        /\ procs' = procs (+) OrderCreated(o, NewOrder(t, flagged))
    /\ overlapped' = (overlapped \/ \E p \in Pending : p.h = "assignRunnerOnOrderCreated")
    /\ last' = Env
    /\ UNCHANGED <<menu, job, rev, flagged, notices, failures, runners, alerts, selected>>

NextStatuses(s) ==
    CASE s = "received" -> {"ready", "cancelled"}
      [] s = "ready" -> {"picked", "cancelled"}
      [] s = "picked" -> {"delivered", "cancelled"}
      [] s = "delivered" -> {"completed"}
      [] OTHER -> {}

\* The applications move an order along its lifecycle.
SetStatus(o, s) ==
    /\ Quiet
    /\ Calm
    /\ budget.statuses > 0
    /\ budget' = [budget EXCEPT !.statuses = @ - 1]
    /\ s \in NextStatuses(orders[o].status)
    /\ LET b == orders[o]
           a == [b EXCEPT !.status = s]
       IN  /\ orders' = [orders EXCEPT ![o] = a]
           /\ procs' = procs (+) OrderUpdated(o, b, a)
    /\ last' = Env
    /\ UNCHANGED <<menu, job, rev, flagged, overlapped, notices, failures, runners, alerts, selected>>

\* A runner goes on or off duty.
SetActive(r) ==
    /\ Quiet
    /\ Calm
    /\ r <= MaxOnDuty
    /\ budget.toggles > 0
    /\ budget' = [budget EXCEPT !.toggles = @ - 1]
    /\ LET b == runners[r]
           a == [b EXCEPT !.isActive = ~b.isActive]
       IN  /\ runners' = [runners EXCEPT ![r] = a]
           /\ procs' = procs (+) RunnerUpdated(r, b, a)
    /\ last' = Env
    /\ UNCHANGED <<menu, job, rev, flagged, overlapped, notices, failures, orders, alerts, selected>>

\* All the events of one batch over the runners.
RunnersUpdated(new) ==
    SetToBag(UNION {BagToSet(RunnerUpdated(r, runners[r], new[r])) : r \in Runners})

\* The reset over the runners on duty only.
resetDailyCompletedOrdersOnDuty ==
    /\ Quiet
    /\ Calm
    /\ budget.resets > 0
    /\ budget' = [budget EXCEPT !.resets = @ - 1]
    /\ LET new == [r \in Runners |->
                     IF runners[r].isActive
                     THEN [runners[r] EXCEPT !.completedOrders = 0]
                     ELSE runners[r]]
       IN  /\ runners' = new
           /\ procs' = procs (+) RunnersUpdated(new)
    /\ last' = Env
    /\ UNCHANGED <<menu, job, rev, flagged, overlapped, notices, failures, orders, alerts, selected>>

\* The batch holds one update per runner document; no runner is created or
\* deleted, so the documents read are the documents written.
resetDailyCompletedOrders ==
    /\ Quiet
    /\ Calm
    /\ budget.resets > 0
    /\ budget' = [budget EXCEPT !.resets = @ - 1]
    /\ LET new == [r \in Runners |-> [runners[r] EXCEPT !.completedOrders = 0]]
       IN  /\ runners' = new
           /\ procs' = procs (+) RunnersUpdated(new)
    /\ last' = Env
    /\ UNCHANGED <<menu, job, rev, flagged, overlapped, notices, failures, orders, alerts, selected>>

\* The monthly job resetting both completion counters.
resetMonthlyBothCounters ==
    /\ Quiet
    /\ Calm
    /\ budget.resets > 0
    /\ budget' = [budget EXCEPT !.resets = @ - 1]
    /\ LET new == [r \in Runners |-> [runners[r] EXCEPT !.totalCompletedOrders = 0,
                                                       !.completedOrders = 0]]
       IN  /\ runners' = new
           /\ procs' = procs (+) RunnersUpdated(new)
    /\ last' = Env
    /\ UNCHANGED <<menu, job, rev, flagged, overlapped, notices, failures, orders, alerts, selected>>

\* resetBatch.update(doc.ref, {totalCompletedOrders: 0}) for every runner.
resetMonthlyCompletedOrders ==
    /\ Quiet
    /\ Calm
    /\ budget.resets > 0
    /\ budget' = [budget EXCEPT !.resets = @ - 1]
    /\ LET new == [r \in Runners |-> [runners[r] EXCEPT !.totalCompletedOrders = 0]]
       IN  /\ runners' = new
           /\ procs' = procs (+) RunnersUpdated(new)
    /\ last' = Env
    /\ UNCHANGED <<menu, job, rev, flagged, overlapped, notices, failures, orders, alerts, selected>>

-----------------------------------------------------------------------------
(* Delivery of events.                                                      *)

\* The guard of p's handler fails on p's event: the handler returns.  Such
\* returns commute with each other too, so they are taken in one fixed order.
ReturnAtGuard(p) ==
    /\ p \in Returning
    /\ p = CHOOSE q \in Returning : TRUE
    /\ procs' = procs (-) SetToBag({p})
    /\ last' = Actor(p)
    /\ UNCHANGED <<menu, job, rev, flagged, overlapped, notices, failures, orders, runners, alerts, budget, selected>>

\* The event system delivers p's event once more (at-least-once delivery).
Redeliver(p) ==
    /\ Quiet
    /\ Calm
    /\ p.pc = "start"
    /\ budget.redeliveries > 0
    /\ budget' = [budget EXCEPT !.redeliveries = @ - 1]
    /\ procs' = procs (+) SetToBag({p})
    /\ last' = Env
    /\ UNCHANGED <<menu, job, rev, flagged, overlapped, notices, failures, orders, runners, alerts, selected>>

-----------------------------------------------------------------------------
(* assignRunnerOnOrderCreated, with findSuitableRunner inlined.             *)

\* The comparator with its two keys in the other order.
BeforeByCompleted(c, d) == c[3] < d[3] \/ (c[3] = d[3] /\ c[2] < d[2])

\* The comparator of filteredRunners.sort, on the data the runners query
\* returned: c = <<runner, activeOrders, completedOrders>>.
Before(c, d) == c[2] < d[2] \/ (c[2] = d[2] /\ c[3] < d[3])

\* filteredRunners[0] after the sort: a runner no other runner comes before;
\* among equals the comparator answers at random.
FirstAfterSort(cands) == {c[1] : c \in {c \in cands : \A d \in cands : ~Before(d, c)}}

\* The runners query of findSuitableRunner.
CreatedQueryRunners(p) ==
    /\ Quiet
    /\ p.h = "assignRunnerOnOrderCreated" /\ p.pc = "start" /\ CreatedGuard(p)
    /\ LET active == {r \in Runners : runners[r].isActive}
           snap == {<<r, runners[r].activeOrders, runners[r].completedOrders>> :
                      r \in active}
           q == [p EXCEPT !.stale = (orders[p.id].runner # NoRunner)]
       IN  procs' = IF active = {}
                    THEN Step(p, [q EXCEPT !.pc = "markWaiting"])
                    ELSE Step(p, [q EXCEPT !.pc = "conflicts", !.snap = snap,
                                           !.todo = active])
    /\ selected' = IF \E r \in Runners : runners[r].isActive
                   THEN selected ELSE [selected EXCEPT ![p.id] = NoRunner]
    /\ last' = Actor(p)
    /\ UNCHANGED <<menu, job, rev, flagged, overlapped, notices, failures, orders, runners, alerts, budget>>

\* One of the parallel runnerHasConflictingDelivery queries returns; after the
\* last one, the filter, the sort and the choice.  The handler holds the
\* documents read (snap) and the runners kept (free) until its order write.
CreatedCheckConflict(p, r) ==
    /\ Quiet
    /\ p.h = "assignRunnerOnOrderCreated" /\ p.pc = "conflicts" /\ r \in p.todo
    /\ LET free == IF runnerHasConflictingDelivery(r, p.after.deliveryTime)
                   THEN p.free ELSE p.free \cup {r}
           todo == p.todo \ {r}
           done == [p EXCEPT !.snap = {}, !.todo = {}, !.free = {}]
           found == [p EXCEPT !.todo = {}, !.free = free]
       IN  IF todo # {}
           THEN /\ procs' = Step(p, [p EXCEPT !.todo = todo, !.free = free])
                /\ selected' = selected
           ELSE IF free = {}
           THEN /\ procs' = Step(p, [done EXCEPT !.pc = "markWaiting"])
                /\ selected' = [selected EXCEPT ![p.id] = NoRunner]
           ELSE \E s \in FirstAfterSort({c \in p.snap : c[1] \in free}) :
                    /\ procs' = Step(p, [found EXCEPT !.pc = "writeOrder", !.sel = s])
                    /\ selected' = [selected EXCEPT ![p.id] = s]
    /\ last' = Actor(p)
    /\ UNCHANGED <<menu, job, rev, flagged, overlapped, notices, failures, orders, runners, alerts, budget>>

\* snapshot.ref.update({runner, waitingForRunner: delete})
CreatedWriteOrder(p) ==
    /\ Quiet
    /\ p.h = "assignRunnerOnOrderCreated" /\ p.pc = "writeOrder"
    /\ LET b == orders[p.id]
           a == [b EXCEPT !.runner = p.sel, !.waiting = FALSE]
       IN  /\ orders' = [orders EXCEPT ![p.id] = a]
           /\ procs' = Step(p, [p EXCEPT !.pc = "writeRunner", !.snap = {}, !.free = {}])
                         (+) OrderUpdated(p.id, b, a)
    /\ last' = Actor(p)
    /\ UNCHANGED <<menu, job, rev, flagged, overlapped, notices, failures, runners, alerts, budget, selected>>

\* runner.ref.update({activeOrders: increment(1), orders: arrayUnion(ref)})
CreatedWriteRunner(p) ==
    /\ Quiet
    /\ p.h = "assignRunnerOnOrderCreated" /\ p.pc = "writeRunner"
    /\ LET b == runners[p.sel]
           a == [b EXCEPT !.activeOrders = @ + 1, !.orders = @ \cup {p.id}]
       IN  /\ runners' = [runners EXCEPT ![p.sel] = a]
           /\ procs' = Finish(procs, p) (+) RunnerUpdated(p.sel, b, a)
    /\ last' = Actor(p)
    /\ UNCHANGED <<menu, job, rev, flagged, overlapped, notices, failures, orders, alerts, budget, selected>>

\* runner.ref.update(...) fails in the store (a transient failure): the
\* invocation fails with the order written and the runner not, and the event
\* system delivers the event again.
CreatedAbortWriteRunner(p) ==
    /\ Quiet
    /\ p.h = "assignRunnerOnOrderCreated" /\ p.pc = "writeRunner"
    /\ budget.aborts > 0
    /\ budget' = [budget EXCEPT !.aborts = @ - 1]
    /\ procs' = Step(p, NewProc(p.h, p.id, p.before, p.after))
    /\ failures' = failures \cup {<<p.h, p.id>>}
    /\ last' = Actor(p)
    /\ UNCHANGED <<menu, job, rev, flagged, overlapped, notices, orders, runners, alerts, selected>>

\* The branch without its write of the flag.
CreatedMarkWaitingUnwritten(p) ==
    /\ Quiet
    /\ p.h = "assignRunnerOnOrderCreated" /\ p.pc = "markWaiting"
    /\ procs' = Step(p, [p EXCEPT !.pc = "sendSMS"])
    /\ last' = Actor(p)
    /\ UNCHANGED <<menu, job, rev, flagged, overlapped, notices, failures, orders, runners, alerts, budget, selected>>

\* snapshot.ref.update({waitingForRunner: true})
CreatedMarkWaiting(p) ==
    /\ Quiet
    /\ p.h = "assignRunnerOnOrderCreated" /\ p.pc = "markWaiting"
    /\ LET b == orders[p.id]
           a == [b EXCEPT !.waiting = TRUE]
       IN  /\ orders' = [orders EXCEPT ![p.id] = a]
           /\ procs' = Step(p, [p EXCEPT !.pc = "sendSMS"]) (+) OrderUpdated(p.id, b, a)
    /\ last' = Actor(p)
    /\ UNCHANGED <<menu, job, rev, flagged, overlapped, notices, failures, runners, alerts, budget, selected>>

\* sendSMS(adminPhoneNumber, ...): the operator alert.
CreatedSendSMS(p) ==
    /\ Quiet
    /\ p.h = "assignRunnerOnOrderCreated" /\ p.pc = "sendSMS"
    /\ alerts' = alerts \cup {p.id}
    /\ procs' = Finish(procs, p)
    /\ last' = Actor(p)
    /\ UNCHANGED <<menu, job, rev, flagged, overlapped, notices, failures, orders, runners, budget, selected>>

-----------------------------------------------------------------------------
(* onRunnerAssignedToOrder                                                  *)

\* runnerRef.update({activeOrders: increment(1), orders: arrayUnion(ref)}).
\* The store rejects the update of a document that does not exist; the
\* handler does not catch the rejection and its invocation fails.
AssignedWriteRunner(p) ==
    /\ Quiet
    /\ p.h = "onRunnerAssignedToOrder" /\ p.pc = "start" /\ AssignedGuard(p)
    /\ LET r == p.after.runner
           b == runners[r]
           a == [b EXCEPT !.activeOrders = @ + 1, !.orders = @ \cup {p.id}]
       IN  IF b.exists
           THEN /\ runners' = [runners EXCEPT ![r] = a]
                /\ procs' = Step(p, [p EXCEPT !.pc = "clearWaiting"])
                              (+) RunnerUpdated(r, b, a)
                /\ failures' = failures
           ELSE /\ runners' = runners
                /\ procs' = procs (-) SetToBag({p})
                /\ failures' = failures \cup {<<p.h, p.id>>}
    /\ last' = Actor(p)
    /\ UNCHANGED <<menu, job, rev, flagged, overlapped, notices, orders, alerts, budget, selected>>

\* change.after.ref.update({waitingForRunner: delete})
AssignedClearWaiting(p) ==
    /\ Quiet
    /\ p.h = "onRunnerAssignedToOrder" /\ p.pc = "clearWaiting"
    /\ LET b == orders[p.id]
           a == [b EXCEPT !.waiting = FALSE]
       IN  /\ orders' = [orders EXCEPT ![p.id] = a]
           /\ procs' = Finish(procs, p) (+) OrderUpdated(p.id, b, a)
    /\ last' = Actor(p)
    /\ UNCHANGED <<menu, job, rev, flagged, overlapped, notices, failures, runners, alerts, budget, selected>>

-----------------------------------------------------------------------------
(* updateRunnerOnOrderDelivered, creation-trigger revision                  *)

\* runnerRef.get(); if (!runnerDoc.exists) return null
DeliveredGetRunner(p) ==
    /\ Quiet
    /\ rev = "created"
    /\ p.h = "updateRunnerOnOrderDelivered" /\ p.pc = "start" /\ DeliveredGuard(p)
    /\ procs' = IF runners[p.after.runner].exists
                THEN Step(p, [p EXCEPT !.pc = "update"])
                ELSE Finish(procs, p)
    /\ last' = Actor(p)
    /\ UNCHANGED <<menu, job, rev, flagged, overlapped, notices, failures, orders, runners, alerts, budget, selected>>

\* runnerRef.update({activeOrders: increment(-1), completedOrders:
\* increment(1), totalCompletedOrders: increment(1)})
DeliveredUpdateRunner(p) ==
    /\ Quiet
    /\ rev = "created"
    /\ p.h = "updateRunnerOnOrderDelivered" /\ p.pc = "update"
    /\ LET r == p.after.runner
           b == runners[r]
           a == [b EXCEPT !.activeOrders = @ - 1, !.completedOrders = @ + 1,
                          !.totalCompletedOrders = @ + 1]
       IN  /\ runners' = [runners EXCEPT ![r] = a]
           /\ procs' = Finish(procs, p) (+) RunnerUpdated(r, b, a)
    /\ last' = Actor(p)
    /\ UNCHANGED <<menu, job, rev, flagged, overlapped, notices, failures, orders, alerts, budget, selected>>

-----------------------------------------------------------------------------
(* updateRunnerOnOrderDelivered, ready-trigger revision                     *)

\* runnerRef.get(); if (!runnerDoc.exists) return null; runnerData.activeOrders
\* is read here.
DeliveredEarlierGetRunner(p) ==
    /\ Quiet
    /\ rev = "ready"
    /\ p.h = "updateRunnerOnOrderDelivered" /\ p.pc = "start" /\ DeliveredGuard(p)
    /\ procs' = IF runners[p.after.runner].exists
                THEN Step(p, [p EXCEPT !.pc = "update",
                                       !.read = runners[p.after.runner].activeOrders])
                ELSE Finish(procs, p)
    /\ last' = Actor(p)
    /\ UNCHANGED <<menu, job, rev, flagged, overlapped, notices, failures, orders, runners, alerts, budget, selected>>

\* decrement = runnerData.activeOrders > 0 ? 1 : 0
Decrement(read) == IF read > 0 THEN 1 ELSE 0

\* The update writing the value computed from the read in the place of the
\* increment.
DeliveredEarlierUpdateRunnerFromRead(p) ==
    /\ Quiet
    /\ rev = "ready"
    /\ p.h = "updateRunnerOnOrderDelivered" /\ p.pc = "update"
    /\ LET r == p.after.runner
           b == runners[r]
           a == [b EXCEPT !.activeOrders = p.read - Decrement(p.read),
                          !.isActive = (p.read - Decrement(p.read) < ActiveCap)]
       IN  /\ runners' = [runners EXCEPT ![r] = a]
           /\ procs' = Finish(procs, p) (+) RunnerUpdated(r, b, a)
    /\ last' = Actor(p)
    /\ UNCHANGED <<menu, job, rev, flagged, overlapped, notices, failures, orders, alerts, budget, selected>>

\* runnerRef.update({activeOrders: increment(-decrement),
\*                   isActive: runnerData.activeOrders - decrement < 5})
DeliveredEarlierUpdateRunner(p) ==
    /\ Quiet
    /\ rev = "ready"
    /\ p.h = "updateRunnerOnOrderDelivered" /\ p.pc = "update"
    /\ LET r == p.after.runner
           b == runners[r]
           a == [b EXCEPT !.activeOrders = @ - Decrement(p.read),
                          !.isActive = (p.read - Decrement(p.read) < ActiveCap)]
       IN  /\ runners' = [runners EXCEPT ![r] = a]
           /\ procs' = Finish(procs, p) (+) RunnerUpdated(r, b, a)
    /\ last' = Actor(p)
    /\ UNCHANGED <<menu, job, rev, flagged, overlapped, notices, failures, orders, alerts, budget, selected>>


-----------------------------------------------------------------------------
(* assignRunnerOnOrderReady, with findLeastBusyRunner inlined.              *)

\* The query with its two orderBy in the other order.
LeastBusyByActive(active) ==
    CHOOSE r \in active : \A q \in active :
        \/ runners[r].activeOrders < runners[q].activeOrders
        \/ /\ runners[r].activeOrders = runners[q].activeOrders
           /\ \/ runners[r].completedOrders < runners[q].completedOrders
              \/ /\ runners[r].completedOrders = runners[q].completedOrders
                 /\ r <= q

\* orderBy('completedOrders').orderBy('activeOrders').limit(1); the store
\* orders equal documents by their name.
LeastBusy(active) ==
    CHOOSE r \in active : \A q \in active :
        \/ runners[r].completedOrders < runners[q].completedOrders
        \/ /\ runners[r].completedOrders = runners[q].completedOrders
           /\ \/ runners[r].activeOrders < runners[q].activeOrders
              \/ /\ runners[r].activeOrders = runners[q].activeOrders
                 /\ r <= q

findLeastBusyRunner ==
    LET active == {r \in Runners : runners[r].isActive}
    IN  IF active = {} THEN NoRunner ELSE LeastBusy(active)

ReadyFindRunner(p) ==
    /\ Quiet
    /\ p.h = "assignRunnerOnOrderReady" /\ p.pc = "start" /\ ReadyGuard(p)
    /\ LET runner == findLeastBusyRunner
       IN  procs' = IF runner # NoRunner
                    THEN Step(p, [p EXCEPT !.pc = "writeOrder", !.sel = runner])
                    ELSE Step(p, [p EXCEPT !.pc = "markWaiting"])
    /\ selected' = [selected EXCEPT ![p.id] = findLeastBusyRunner]
    /\ last' = Actor(p)
    /\ UNCHANGED <<menu, job, rev, flagged, overlapped, notices, failures, orders, runners, alerts, budget>>

\* change.after.ref.update({runner, waitingForRunner: delete})
ReadyWriteOrder(p) ==
    /\ Quiet
    /\ p.h = "assignRunnerOnOrderReady" /\ p.pc = "writeOrder"
    /\ LET b == orders[p.id]
           a == [b EXCEPT !.runner = p.sel, !.waiting = FALSE]
       IN  /\ orders' = [orders EXCEPT ![p.id] = a]
           /\ procs' = Finish(procs, p) (+) OrderUpdated(p.id, b, a)
    /\ last' = Actor(p)
    /\ UNCHANGED <<menu, job, rev, flagged, overlapped, notices, failures, runners, alerts, budget, selected>>

\* change.after.ref.update({waitingForRunner: true})
ReadyMarkWaiting(p) ==
    /\ Quiet
    /\ p.h = "assignRunnerOnOrderReady" /\ p.pc = "markWaiting"
    /\ LET b == orders[p.id]
           a == [b EXCEPT !.waiting = TRUE]
       IN  /\ orders' = [orders EXCEPT ![p.id] = a]
           /\ procs' = Finish(procs, p) (+) OrderUpdated(p.id, b, a)
    /\ last' = Actor(p)
    /\ UNCHANGED <<menu, job, rev, flagged, overlapped, notices, failures, runners, alerts, budget, selected>>

-----------------------------------------------------------------------------
(* assignOrdersWhenRunnerActivates                                          *)

\* The forEach without its cap.
FirstOrdersUncapped(S, n) == S

\* The first documents of the query, up to the cap of the forEach.
RECURSIVE FirstOrders(_, _)
FirstOrders(S, n) ==
    IF S = {} \/ n = 0 THEN {}
    ELSE LET o == CHOOSE x \in S : \A y \in S : x <= y
         IN  {o} \cup FirstOrders(S \ {o}, n - 1)

\* The query of the orders with waitingForRunner == true.
ActivatesQueryWaiting(p) ==
    /\ Quiet
    /\ p.h = "assignOrdersWhenRunnerActivates" /\ p.pc = "start" /\ ActivatesGuard(p)
    /\ LET waiting == {o \in Orders : orders[o].waiting}
       IN  procs' = IF waiting = {}
                    THEN Finish(procs, p)
                    ELSE Step(p, [p EXCEPT !.pc = "commit",
                                           !.batch = FirstOrders(waiting, BatchCap)])
    /\ last' = Actor(p)
    /\ UNCHANGED <<menu, job, rev, flagged, overlapped, notices, failures, orders, runners, alerts, budget, selected>>

\* batch.commit(): every order of the batch gets the runner.
ActivatesCommit(p) ==
    /\ Quiet
    /\ p.h = "assignOrdersWhenRunnerActivates" /\ p.pc = "commit"
    /\ LET new == [o \in Orders |->
                     IF o \in p.batch
                     THEN [orders[o] EXCEPT !.runner = p.id, !.waiting = FALSE]
                     ELSE orders[o]]
       IN  /\ orders' = new
           /\ procs' = Step(p, [p EXCEPT !.pc = "updateRunner"]) (+)
                         SetToBag(UNION {BagToSet(OrderUpdated(o, orders[o], new[o])) :
                                           o \in p.batch})
    /\ last' = Actor(p)
    /\ UNCHANGED <<menu, job, rev, flagged, overlapped, notices, failures, runners, alerts, budget, selected>>

\* The update with isActive computed from the runner's activeOrders after the
\* batch.
ActivatesUpdateRunnerByLoad(p) ==
    /\ Quiet
    /\ p.h = "assignOrdersWhenRunnerActivates" /\ p.pc = "updateRunner"
    /\ LET count == Cardinality(p.batch)
           b == runners[p.id]
           a == [b EXCEPT !.activeOrders = @ + count,
                          !.isActive = (b.activeOrders + count < ActiveCap)]
       IN  /\ runners' = [runners EXCEPT ![p.id] = a]
           /\ procs' = Finish(procs, p) (+) RunnerUpdated(p.id, b, a)
    /\ last' = Actor(p)
    /\ UNCHANGED <<menu, job, rev, flagged, overlapped, notices, failures, orders, alerts, budget, selected>>

\* change.after.ref.update({activeOrders: increment(count),
\*                          isActive: count === 5 ? false : true})
ActivatesUpdateRunner(p) ==
    /\ Quiet
    /\ p.h = "assignOrdersWhenRunnerActivates" /\ p.pc = "updateRunner"
    /\ LET count == Cardinality(p.batch)
           b == runners[p.id]
           a == [b EXCEPT !.activeOrders = @ + count,
                          !.isActive = (count # BatchCap)]
       IN  /\ runners' = [runners EXCEPT ![p.id] = a]
           /\ procs' = Finish(procs, p) (+) RunnerUpdated(p.id, b, a)
    /\ last' = Actor(p)
    /\ UNCHANGED <<menu, job, rev, flagged, overlapped, notices, failures, orders, alerts, budget, selected>>

-----------------------------------------------------------------------------
(* sendRunnerNotification, creation-trigger revision.  An exception in the  *)
(* try block is caught and logged and the handler returns.                  *)

\* runnerRef.get(); if (!runnerDoc.exists) return null; runnerData holds the
\* token from here on.
NotifyGetRunner(p) ==
    /\ Quiet
    /\ p.h = "sendRunnerNotification" /\ p.pc = "start" /\ NotifyGuard(p)
    /\ procs' = IF runners[p.after.runner].exists
                THEN Step(p, [p EXCEPT !.pc = "getRestaurant",
                                       !.token = runners[p.after.runner].fcmToken])
                ELSE Finish(procs, p)
    /\ last' = Actor(p)
    /\ UNCHANGED <<menu, job, rev, flagged, overlapped, notices, failures, orders, runners, alerts,
                   budget, selected>>

\* restaurantRef.get(); if (!restaurantDoc.exists) return null; then the
\* delivery time is parsed for the message and, if (runnerData.fcmToken), the
\* message is built.
NotifyGetRestaurant(p) ==
    /\ Quiet
    /\ p.h = "sendRunnerNotification" /\ p.pc = "getRestaurant"
    /\ procs' = IF p.after.restaurant /\ p.token
                THEN Step(p, [p EXCEPT !.pc = "send"])
                ELSE Finish(procs, p)
    /\ last' = Actor(p)
    /\ UNCHANGED <<menu, job, rev, flagged, overlapped, notices, failures, orders, runners, alerts,
                   budget, selected>>

\* admin.messaging().send(message)
NotifySend(p) ==
    /\ Quiet
    /\ p.h = "sendRunnerNotification" /\ p.pc = "send"
    /\ notices' = notices \cup {p.id}
    /\ procs' = Finish(procs, p)
    /\ last' = Actor(p)
    /\ UNCHANGED <<menu, job, rev, flagged, overlapped, failures, orders, runners, alerts, budget,
                   selected>>

-----------------------------------------------------------------------------
(* resetAvailability.  The engine's documents play no part in it.           *)

Engineless == UNCHANGED <<rev, flagged, orders, runners, procs, alerts, selected,
                          budget, last, overlapped, notices, failures>>

\* The menus at 5:00: every place of every menu holds no item, an item on
\* sale or an item off sale.
InitAvailability ==
    /\ rev = "created"
    /\ flagged = FALSE
    /\ orders = [o \in Orders |-> NoOrder]
    /\ runners = [r \in Runners |-> NewRunner(FALSE)]
    /\ procs = EmptyBag
    /\ alerts = {}
    /\ selected = [o \in Orders |-> NoRunner]
    /\ last = Env
    /\ overlapped = FALSE
    /\ notices = {}
    /\ failures = {}
    /\ budget = NoBudget
    /\ menu \in [Restaurants -> [MenuItems -> {NoItem, Item(TRUE), Item(FALSE)}]]
    /\ job = NoJob

\* The scheduler starts the job: collection('restaurants').get() is sent.
resetAvailabilityStart ==
    /\ job.pc = "idle"
    /\ job' = [job EXCEPT !.pc = "restaurants"]
    /\ menu' = menu
    /\ Engineless

\* The restaurants are there: the batch is made, the forEach sends
\* menuRef.get() for every restaurant and registers its callback, and
\* batch.commit() is called, all before the job yields at its await.  The
\* commit carries the updates the batch holds when it is called.
resetAvailabilityCommit ==
    /\ job.pc = "restaurants"
    /\ job' = [job EXCEPT !.pc = "commit", !.gets = Restaurants, !.batch = {},
                          !.committed = TRUE]
    /\ menu' = menu
    /\ Engineless

\* The menu of restaurant r is there and the callback of its get runs:
\* batch.update(itemDoc.ref, ...) for every item.  update throws on a batch
\* that has been committed, at the first item; nothing awaits the callback's
\* promise and the throw is outside the job's try.
resetAvailabilityMenu(r) ==
    /\ r \in job.gets
    /\ job' = IF ItemRefs(r) = {}
              THEN [job EXCEPT !.gets = @ \ {r}]
              ELSE IF job.committed
              THEN [job EXCEPT !.gets = @ \ {r}, !.thrown = @ \cup {r}]
              ELSE [job EXCEPT !.gets = @ \ {r}, !.batch = @ \cup ItemRefs(r)]
    /\ menu' = menu
    /\ Engineless

\* The commit is applied and answered: the items of the batch are on sale,
\* and the job logs its success and returns.
resetAvailabilityLog ==
    /\ job.pc = "commit"
    /\ menu' = [r \in Restaurants |-> [i \in MenuItems |->
                  IF <<r, i>> \in job.batch
                  THEN [menu[r][i] EXCEPT !.isAvailable = TRUE]
                  ELSE menu[r][i]]]
    /\ job' = [job EXCEPT !.pc = "done", !.logged = "success"]
    /\ Engineless

NextAvailability ==
    \/ resetAvailabilityStart
    \/ resetAvailabilityCommit
    \/ \E r \in Restaurants : resetAvailabilityMenu(r)
    \/ resetAvailabilityLog

SpecAvailability == InitAvailability /\ [][NextAvailability]_vars

-----------------------------------------------------------------------------
Next ==
    \/ \E t \in DeliveryTimes : CreateOrder(t)
    \/ \E o \in Orders, s \in {"ready", "picked", "delivered", "completed", "cancelled"} :
          SetStatus(o, s)
    \/ \E r \in Runners : SetActive(r)
    \/ resetDailyCompletedOrders
    \/ resetMonthlyCompletedOrders
    \/ \E p \in Pending : ReturnAtGuard(p)
    \/ \E p \in Pending : Redeliver(p)
    \/ \E p \in Pending : CreatedQueryRunners(p)
    \/ \E p \in Pending, r \in Runners : CreatedCheckConflict(p, r)
    \/ \E p \in Pending : CreatedWriteOrder(p)
    \/ \E p \in Pending : CreatedWriteRunner(p)
    \/ \E p \in Pending : CreatedMarkWaiting(p)
    \/ \E p \in Pending : CreatedSendSMS(p)
    \/ \E p \in Pending : AssignedWriteRunner(p)
    \/ \E p \in Pending : AssignedClearWaiting(p)
    \/ \E p \in Pending : DeliveredGetRunner(p)
    \/ \E p \in Pending : DeliveredUpdateRunner(p)
    \/ \E p \in Pending : DeliveredEarlierGetRunner(p)
    \/ \E p \in Pending : DeliveredEarlierUpdateRunner(p)
    \/ \E p \in Pending : ReadyFindRunner(p)
    \/ \E p \in Pending : ReadyWriteOrder(p)
    \/ \E p \in Pending : ReadyMarkWaiting(p)
    \/ \E p \in Pending : ActivatesQueryWaiting(p)
    \/ \E p \in Pending : ActivatesCommit(p)
    \/ \E p \in Pending : ActivatesUpdateRunner(p)

Spec == Init /\ [][Next]_vars

NextRace ==
    \/ \E t \in DeliveryTimes : CreateOrder(t)
    \/ \E p \in Pending : ReturnAtGuard(p)
    \/ \E p \in Pending : CreatedQueryRunners(p)
    \/ \E p \in Pending, r \in Runners : CreatedCheckConflict(p, r)
    \/ \E p \in Pending : CreatedWriteOrder(p)
    \/ \E p \in Pending : CreatedWriteRunner(p)
    \/ \E p \in Pending : CreatedMarkWaiting(p)
    \/ \E p \in Pending : CreatedSendSMS(p)
    \/ \E p \in Pending : AssignedWriteRunner(p)
    \/ \E p \in Pending : AssignedClearWaiting(p)

SpecRace == InitRace /\ [][NextRace]_vars

\* A step of a handler of the creation-trigger revision.  The functions
\* runtime runs every invocation it has started or has pending: the steps
\* are taken as long as one is possible.
CreatedEngine ==
    \E p \in Pending :
        \/ ReturnAtGuard(p)
        \/ CreatedQueryRunners(p)
        \/ \E r \in Runners : CreatedCheckConflict(p, r)
        \/ CreatedWriteOrder(p)
        \/ CreatedWriteRunner(p)
        \/ CreatedMarkWaiting(p)
        \/ CreatedSendSMS(p)
        \/ AssignedWriteRunner(p)
        \/ AssignedClearWaiting(p)

\* The creation of an order and its handlers, under fair scheduling of the
\* handlers and without store failures.
SpecCreatedFair == InitCreated /\ [][NextRace]_vars /\ WF_vars(CreatedEngine)

\* The creation handler and the handlers its writes trigger.
NextSelect ==
    \/ \E p \in Pending : ReturnAtGuard(p)
    \/ \E p \in Pending : CreatedQueryRunners(p)
    \/ \E p \in Pending, r \in Runners : CreatedCheckConflict(p, r)
    \/ \E p \in Pending : CreatedWriteOrder(p)
    \/ \E p \in Pending : CreatedWriteRunner(p)
    \/ \E p \in Pending : CreatedMarkWaiting(p)
    \/ \E p \in Pending : CreatedSendSMS(p)
    \/ \E p \in Pending : AssignedWriteRunner(p)
    \/ \E p \in Pending : AssignedClearWaiting(p)

SpecSelect == InitSelect /\ [][NextSelect]_vars

SpecMalformed == InitMalformed /\ [][NextSelect]_vars

\* The scheduled resets and the returns of the handlers their writes trigger.
NextReset ==
    \/ resetDailyCompletedOrders
    \/ resetMonthlyCompletedOrders
    \/ \E p \in Pending : ReturnAtGuard(p)

SpecReset == InitReset /\ [][NextReset]_vars

\* A runner goes on duty; the activation handler and the returns of the
\* handlers its writes trigger.
NextActivate ==
    \/ \E r \in Runners : SetActive(r)
    \/ \E p \in Pending : ReturnAtGuard(p)
    \/ \E p \in Pending : ActivatesQueryWaiting(p)
    \/ \E p \in Pending : ActivatesCommit(p)
    \/ \E p \in Pending : ActivatesUpdateRunner(p)

SpecActivate == InitActivate /\ [][NextActivate]_vars

\* The ready handler and the returns of the handlers its write triggers.
NextLeast ==
    \/ \E p \in Pending : ReturnAtGuard(p)
    \/ \E p \in Pending : ReadyFindRunner(p)
    \/ \E p \in Pending : ReadyWriteOrder(p)
    \/ \E p \in Pending : ReadyMarkWaiting(p)

SpecLeast == InitLeast /\ [][NextLeast]_vars

\* The creation of an order and its handlers, with a store failure.
NextAbort ==
    \/ \E t \in DeliveryTimes : CreateOrder(t)
    \/ \E p \in Pending : ReturnAtGuard(p)
    \/ \E p \in Pending : CreatedQueryRunners(p)
    \/ \E p \in Pending, r \in Runners : CreatedCheckConflict(p, r)
    \/ \E p \in Pending : CreatedWriteOrder(p)
    \/ \E p \in Pending : CreatedAbortWriteRunner(p)
    \/ \E p \in Pending : CreatedWriteRunner(p)
    \/ \E p \in Pending : CreatedMarkWaiting(p)
    \/ \E p \in Pending : CreatedSendSMS(p)
    \/ \E p \in Pending : AssignedWriteRunner(p)
    \/ \E p \in Pending : AssignedClearWaiting(p)

SpecAbort == InitAbort /\ [][NextAbort]_vars

\* The handlers of an order update that read the documents the order
\* references.
NextDocs ==
    \/ \E p \in Pending : ReturnAtGuard(p)
    \/ \E p \in Pending : NotifyGetRunner(p)
    \/ \E p \in Pending : NotifyGetRestaurant(p)
    \/ \E p \in Pending : NotifySend(p)
    \/ \E p \in Pending : AssignedWriteRunner(p)
    \/ \E p \in Pending : AssignedClearWaiting(p)
    \/ \E p \in Pending : DeliveredGetRunner(p)
    \/ \E p \in Pending : DeliveredUpdateRunner(p)
    \/ \E p \in Pending : DeliveredEarlierGetRunner(p)
    \/ \E p \in Pending : DeliveredEarlierUpdateRunner(p)

SpecDocs == InitDocs /\ [][NextDocs]_vars

\* The handlers of an order update, of both revisions, and the handlers
\* their writes trigger.
NextUpdate ==
    \/ \E p \in Pending : ReturnAtGuard(p)
    \/ \E p \in Pending : AssignedWriteRunner(p)
    \/ \E p \in Pending : AssignedClearWaiting(p)
    \/ \E p \in Pending : DeliveredGetRunner(p)
    \/ \E p \in Pending : DeliveredUpdateRunner(p)
    \/ \E p \in Pending : DeliveredEarlierGetRunner(p)
    \/ \E p \in Pending : DeliveredEarlierUpdateRunner(p)
    \/ \E p \in Pending : ReadyFindRunner(p)
    \/ \E p \in Pending : ReadyWriteOrder(p)
    \/ \E p \in Pending : ReadyMarkWaiting(p)

SpecUpdate == InitUpdate /\ [][NextUpdate]_vars

\* A step of a handler of the engine, of either revision.  The functions
\* runtime runs every invocation it has started or has pending.
Engine ==
    \E p \in Pending :
        \/ ReturnAtGuard(p)
        \/ CreatedQueryRunners(p)
        \/ \E r \in Runners : CreatedCheckConflict(p, r)
        \/ CreatedWriteOrder(p)
        \/ CreatedWriteRunner(p)
        \/ CreatedMarkWaiting(p)
        \/ CreatedSendSMS(p)
        \/ AssignedWriteRunner(p)
        \/ AssignedClearWaiting(p)
        \/ DeliveredGetRunner(p)
        \/ DeliveredUpdateRunner(p)
        \/ DeliveredEarlierGetRunner(p)
        \/ DeliveredEarlierUpdateRunner(p)
        \/ ReadyFindRunner(p)
        \/ ReadyWriteOrder(p)
        \/ ReadyMarkWaiting(p)
        \/ ActivatesQueryWaiting(p)
        \/ ActivatesCommit(p)
        \/ ActivatesUpdateRunner(p)

\* One write from outside and the handlers it triggers, each event delivered
\* once.
NextChain ==
    \/ \E t \in DeliveryTimes : CreateOrder(t)
    \/ \E o \in Orders, s \in OrderStatuses : SetStatus(o, s)
    \/ \E r \in Runners : SetActive(r)
    \/ resetDailyCompletedOrders
    \/ resetMonthlyCompletedOrders
    \/ \E p \in Pending : ReturnAtGuard(p)
    \/ \E p \in Pending : CreatedQueryRunners(p)
    \/ \E p \in Pending, r \in Runners : CreatedCheckConflict(p, r)
    \/ \E p \in Pending : CreatedWriteOrder(p)
    \/ \E p \in Pending : CreatedWriteRunner(p)
    \/ \E p \in Pending : CreatedMarkWaiting(p)
    \/ \E p \in Pending : CreatedSendSMS(p)
    \/ \E p \in Pending : AssignedWriteRunner(p)
    \/ \E p \in Pending : AssignedClearWaiting(p)
    \/ \E p \in Pending : DeliveredGetRunner(p)
    \/ \E p \in Pending : DeliveredUpdateRunner(p)
    \/ \E p \in Pending : DeliveredEarlierGetRunner(p)
    \/ \E p \in Pending : DeliveredEarlierUpdateRunner(p)
    \/ \E p \in Pending : ReadyFindRunner(p)
    \/ \E p \in Pending : ReadyWriteOrder(p)
    \/ \E p \in Pending : ReadyMarkWaiting(p)
    \/ \E p \in Pending : ActivatesQueryWaiting(p)
    \/ \E p \in Pending : ActivatesCommit(p)
    \/ \E p \in Pending : ActivatesUpdateRunner(p)

SpecChain == InitChain /\ [][NextChain]_vars /\ WF_vars(Engine)

TypeOK ==
    /\ rev \in Revisions
    /\ \A r \in Runners : runners[r].isActive \in BOOLEAN
    /\ \A o \in Orders : orders[o].runner \in Runners \cup {NoRunner}


-----------------------------------------------------------------------------
(* The properties.                                                          *)

\* The orders that reference runner r and are not delivered yet.
Commitments(r) ==
    {o \in Orders : orders[o].runner = r /\ orders[o].status \in ActiveStatuses}

\* C1: in every reachable state, also between the writes of a handler, every
\* runner's activeOrders is the number of orders that reference the runner
\* with orderStatus received, ready or picked.
C1_CounterConservation ==
    \A r \in Runners : runners[r].activeOrders = Cardinality(Commitments(r))

\* C2: two undelivered orders of one runner have delivery times at least 60
\* minutes apart.
C2_ConflictWindow ==
    \A r \in Runners : \A o1, o2 \in Commitments(r) :
        o1 # o2 => ~WithinWindow(orders[o1].deliveryTime, orders[o2].deliveryTime)

\* C3: once an order's runner field holds a runner, no step writes another
\* runner into it.
C3_NoReassignment ==
    [][\A o \in Orders :
         orders[o].runner # NoRunner => orders'[o].runner = orders[o].runner]_vars

\* C4: every runner's activeOrders is at least 0 in every reachable state.
C4_ActiveOrdersNonNegative == \A r \in Runners : runners[r].activeOrders >= 0

\* C5: an order was created without a runner, the selector returned runner R
\* for it, nothing else was written from outside and every handler has
\* finished: the order's runner is R, waitingForRunner is absent and R's
\* activeOrders is 1 more than before the creation, where it was 0.
C5_AssignedCountedOnce ==
    \A o \in Orders :
        (/\ procs = EmptyBag
         /\ budget = [InitBudget EXCEPT !.creates = @ - 1]
         /\ orders[o].status # "absent"
         /\ selected[o] # NoRunner)
        => /\ orders[o].runner = selected[o]
           /\ ~orders[o].waiting
           /\ runners[selected[o]].activeOrders = 1

\* C6: an invocation of updateRunnerOnOrderDelivered (creation-trigger
\* revision) on an event that an earlier invocation has already processed to
\* its end changes no runner.
C6_DeliveredRedeliveryIdempotent ==
    [][(rev = "created" /\ last'.h = "updateRunnerOnOrderDelivered" /\ last'.dup)
         => runners' = runners]_vars

\* C7: an invocation of assignRunnerOnOrderCreated on a creation event that an
\* earlier invocation has already processed to its end, assigning a runner,
\* leaves the order with that runner and increments no activeOrders.
C7_CreatedRedeliveryIdempotent ==
    [][(/\ last'.h = "assignRunnerOnOrderCreated"
        /\ last'.dup
        /\ orders[last'.id].runner # NoRunner)
         => /\ orders'[last'.id].runner = orders[last'.id].runner
            /\ \A r \in Runners : runners'[r].activeOrders = runners[r].activeOrders]_vars

\* C8: no step of an update handler's invocation on an event whose before and
\* after snapshots are equal writes to the store: orders and runners are
\* unchanged.
C8_EqualSnapshotsNoWrite ==
    [][(/\ last'.h \in {"onRunnerAssignedToOrder", "assignRunnerOnOrderReady",
                       "updateRunnerOnOrderDelivered",
                       "assignOrdersWhenRunnerActivates"}
        /\ last'.same)
         => (orders' = orders /\ runners' = runners)]_vars

\* An update handler has just returned on an event with equal snapshots.
C8_Witness ==
    /\ last.h \in {"onRunnerAssignedToOrder", "assignRunnerOnOrderReady",
                  "updateRunnerOnOrderDelivered", "assignOrdersWhenRunnerActivates"}
    /\ last.same
    /\ last.pc = "start"

\* C9: where the ordering flow creates orders with waitingForRunner set, an
\* order's runner field is set if and only if waitingForRunner is absent, in
\* every reachable state.
C9_RunnerIffNotWaiting ==
    flagged =>
        \A o \in Orders :
            orders[o].status # "absent" =>
                ((orders[o].runner # NoRunner) <=> ~orders[o].waiting)

\* C10: every runner's completedOrders is at most its totalCompletedOrders in
\* every reachable state.
C10_CompletedAtMostTotal ==
    \A r \in Runners : runners[r].completedOrders <= runners[r].totalCompletedOrders

\* C11: the write of updateRunnerOnOrderDelivered, on an event whose order has
\* runner R with activeOrders above 0, changes R by activeOrders - 1,
\* completedOrders + 1 and totalCompletedOrders + 1, and nothing else.
C11_DeliveredChangesCounters ==
    [][\A p \in Pending :
         (/\ p.h = "updateRunnerOnOrderDelivered"
          /\ p.pc = "update"
          /\ last' = Actor(p)
          /\ runners[p.after.runner].activeOrders > 0)
         => runners' = [runners EXCEPT ![p.after.runner] =
                          [@ EXCEPT !.activeOrders = @ - 1,
                                    !.completedOrders = @ + 1,
                                    !.totalCompletedOrders = @ + 1]]]_vars

\* C12: in the creation-trigger revision, an order was created while no runner
\* was active and no runner has been activated since; once the handlers have
\* finished the order has waitingForRunner = true and no runner, and every
\* runner's counters are what they were (0).
C12_NoRunnerMarksWaiting ==
    \A o \in Orders :
        (/\ rev = "created"
         /\ procs = EmptyBag
         /\ budget.toggles = MaxToggles
         /\ \A r \in Runners : ~runners[r].isActive
         /\ orders[o].status # "absent")
        => /\ orders[o].waiting
           /\ orders[o].runner = NoRunner
           /\ \A r \in Runners :
                /\ runners[r].activeOrders = 0
                /\ runners[r].completedOrders = 0
                /\ runners[r].totalCompletedOrders = 0

\* The creation handler has just finished on an order created while no runner
\* was active.
C12_Witness ==
    /\ rev = "created"
    /\ procs = EmptyBag
    /\ budget.toggles = MaxToggles
    /\ \A r \in Runners : ~runners[r].isActive
    /\ last.h = "assignRunnerOnOrderCreated"
    /\ last.pc = "sendSMS"
    /\ orders[last.id].status # "absent"

\* C13: runnerHasConflictingDelivery(R, t) is true exactly when an order
\* references R with orderStatus received, ready or picked and a deliveryTime
\* less than 60 minutes from t, minutes being 60 * HH + MM without wrap-around:
\* 12:30 against 12:00 is a conflict, 13:00 against 12:00 and 00:15 against
\* 23:30 are not, in every state a step is taken from.  The step that runs it
\* writes nothing to the store.
C13_ConflictCheckerWindow ==
    [][LET Minutes(t) == 60 * (10 * DigitVal(t[1]) + DigitVal(t[2]))
                           + 10 * DigitVal(t[4]) + DigitVal(t[5])
           Gap(t, u) == IF Minutes(t) < Minutes(u) THEN Minutes(u) - Minutes(t)
                        ELSE Minutes(t) - Minutes(u)
           Answers == [r \in Runners, t \in ClockTimes |->
                         runnerHasConflictingDelivery(r, t)]
           Expected == [r \in Runners, t \in ClockTimes |->
                          \E o \in Orders :
                              /\ orders[o].runner = r
                              /\ orders[o].status \in {"received", "ready", "picked"}
                              /\ Gap(t, orders[o].deliveryTime) < 60]
       IN  /\ Answers = Expected
           /\ WithinWindow(T1230, T1200)
           /\ ~WithinWindow(T1300, T1200)
           /\ ~WithinWindow(T0015, T2330)
           /\ (last'.h = "assignRunnerOnOrderCreated" /\ last'.pc = "conflicts")
                => (orders' = orders /\ runners' = runners)]_vars

\* The selector has found a runner free of conflicts for an order at 00:15
\* although the runner holds an undelivered order at 23:30.
C13_Witness ==
    \E p \in Pending :
        /\ p.h = "assignRunnerOnOrderCreated"
        /\ p.pc = "writeOrder"
        /\ p.after.deliveryTime = T0015
        /\ orders[2].status = "received"
        /\ orders[2].deliveryTime = T2330
        /\ orders[2].runner \in p.free

\* C14: the runner findSuitableRunner returns has the lexicographically least
\* pair (activeOrders, completedOrders) among the active runners it read and
\* found free of conflicts; of R1 (2, 5), R2 (1, 9) and R3 (1, 3), all free of
\* conflicts, it returns R3.
C14_FairnessOrder ==
    \A p \in Pending :
        (p.h = "assignRunnerOnOrderCreated" /\ p.pc = "writeOrder")
        => /\ p.sel \in p.free
           /\ \E c \in p.snap :
                /\ c[1] = p.sel
                /\ \A d \in p.snap :
                     d[1] \in p.free
                     => (c[2] < d[2] \/ (c[2] = d[2] /\ c[3] <= d[3]))
           /\ (p.free = {1, 2, 3} /\ p.snap = {<<1, 2, 5>>, <<2, 1, 9>>, <<3, 1, 3>>})
                => p.sel = 3

\* The selector has returned on R1 (2, 5), R2 (1, 9), R3 (1, 3), all active and
\* free of conflicts.
C14_Witness ==
    \E p \in Pending :
        /\ p.h = "assignRunnerOnOrderCreated"
        /\ p.pc = "writeOrder"
        /\ p.free = {1, 2, 3}
        /\ p.snap = {<<1, 2, 5>>, <<2, 1, 9>>, <<3, 1, 3>>}

\* C15: findSuitableRunner returns a runner that is active and holds no
\* undelivered order less than 60 minutes from the candidate time, and returns
\* none only when no active runner is free of such an order, the store being
\* as the selector read it.
C15_SelectorAvailability ==
    \A p \in Pending :
        p.h = "assignRunnerOnOrderCreated"
        => LET Free(r) == /\ runners[r].isActive
                          /\ \A o \in Commitments(r) :
                               ~WithinWindow(p.after.deliveryTime,
                                             orders[o].deliveryTime)
           IN  /\ p.pc = "writeOrder" => Free(p.sel)
               /\ p.pc = "markWaiting" => \A r \in Runners : ~Free(r)

\* The selector has returned none although a runner is active: every active
\* runner holds a conflicting order.
C15_Witness ==
    \E p \in Pending :
        /\ p.h = "assignRunnerOnOrderCreated"
        /\ p.pc = "markWaiting"
        /\ \E r \in Runners : runners[r].isActive

\* C16: two creation handlers that run one after the other never leave two
\* undelivered orders less than 60 minutes apart with one runner; two that
\* overlap do (the witness), both having read the runners and the runner's
\* orders before either wrote.
C16_SerialNeverShares ==
    ~overlapped =>
        \A o1, o2 \in Orders :
            (/\ o1 # o2
             /\ orders[o1].runner # NoRunner
             /\ orders[o1].runner = orders[o2].runner
             /\ orders[o1].status \in {"received", "ready", "picked"}
             /\ orders[o2].status \in {"received", "ready", "picked"})
            => \A x \in TotalMinutes(orders[o1].deliveryTime),
                  y \in TotalMinutes(orders[o2].deliveryTime) :
                   x - y >= 60 \/ y - x >= 60

\* Two overlapping creation handlers have finished, and the orders at 12:00
\* and 12:30 are with the same runner.
C16_Witness ==
    /\ overlapped
    /\ procs = EmptyBag
    /\ orders[1].runner # NoRunner
    /\ orders[1].runner = orders[2].runner
    /\ orders[1].deliveryTime = T1200
    /\ orders[2].deliveryTime = T1230
    /\ runners[orders[1].runner].orders = {1, 2}

\* C17: every step changes every runner's activeOrders by the delta of the
\* update the acting handler sends, applied to the value the store holds at
\* that moment: +1 for an assignment, the number of orders of its batch for an
\* activation, -1 (in the ready-trigger revision -1 or 0, as the handler
\* decided) for a delivery, and 0 for every other step.  No update is lost.
C17_AtomicIncrements ==
    [][LET Delta(p, r) ==
               CASE (/\ p.h = "assignRunnerOnOrderCreated"
                     /\ p.pc = "writeRunner"
                     /\ r = p.sel) -> 1
                 [] (/\ p.h = "onRunnerAssignedToOrder"
                     /\ p.pc = "start"
                     /\ p.before.runner = NoRunner
                     /\ r = p.after.runner) -> 1
                 [] (/\ p.h = "updateRunnerOnOrderDelivered"
                     /\ p.pc = "update"
                     /\ r = p.after.runner) ->
                        IF rev = "ready" /\ p.read <= 0 THEN 0 ELSE 0 - 1
                 [] (/\ p.h = "assignOrdersWhenRunnerActivates"
                     /\ p.pc = "updateRunner"
                     /\ r = p.id) -> Cardinality(p.batch)
                 [] OTHER -> 0
       IN  IF last' = Env
           THEN \A r \in Runners : runners'[r].activeOrders = runners[r].activeOrders
           ELSE \E p \in Pending :
                    /\ Actor(p) = last'
                    /\ \A r \in Runners :
                         runners'[r].activeOrders = runners[r].activeOrders + Delta(p, r)]_vars

\* In the ready-trigger revision two delivery handlers have both read the
\* runner's activeOrders at 1 and both their decrements have been applied.
C17_Witness ==
    /\ rev = "ready"
    /\ last.h = "updateRunnerOnOrderDelivered"
    /\ last.pc = "update"
    /\ \E r \in Runners : runners[r].activeOrders = 0 - 1

\* C18: a run of resetDailyCompletedOrders leaves completedOrders = 0 for every
\* runner, and a run that starts where every completedOrders is 0 already, as a
\* second run right after a first one does, changes no field of any runner.
C18_DailyResetIdempotent ==
    [][resetDailyCompletedOrders
         => /\ \A r \in Runners : runners'[r].completedOrders = 0
            /\ (\A r \in Runners : runners[r].completedOrders = 0)
                 => runners' = runners]_vars

\* The daily reset has run twice in succession, on runners that had completed
\* orders; the monthly reset has not run.
C18_Witness ==
    /\ budget.resets = ResetRuns - 2
    /\ procs = EmptyBag
    /\ \A r \in Runners :
         runners[r].completedOrders = 0 /\ runners[r].totalCompletedOrders > 0

\* C19: an activation handler that passes its guard while W orders wait
\* takes exactly min(W, 5) of the waiting orders; its commit gives exactly
\* those orders to its runner and clears waitingForRunner on them, leaving
\* every other order as it was; its last step adds exactly that number to the
\* runner's activeOrders and changes no other runner.
C19_ActivationBatch ==
    [][last'.h = "assignOrdersWhenRunnerActivates"
         => \E p \in Pending :
              /\ Actor(p) = last'
              /\ LET waiting == {o \in Orders : orders[o].waiting}
                     W == Cardinality(waiting)
                     n == IF W < 5 THEN W ELSE 5
                 IN  CASE p.pc = "start" /\ ActivatesGuard(p) ->
                            /\ orders' = orders
                            /\ runners' = runners
                            /\ IF n = 0
                               THEN procs' = Finish(procs, p)
                               ELSE \E q \in Pending' :
                                      /\ q.h = p.h /\ q.id = p.id
                                      /\ q.pc = "commit"
                                      /\ q.batch \subseteq waiting
                                      /\ Cardinality(q.batch) = n
                                      /\ procs' = Step(p, q)
                        [] p.pc = "commit" ->
                            /\ runners' = runners
                            /\ \A o \in Orders :
                                 IF o \in p.batch
                                 THEN /\ orders'[o].runner = p.id
                                      /\ ~orders'[o].waiting
                                 ELSE orders'[o] = orders[o]
                        [] p.pc = "updateRunner" ->
                            /\ orders' = orders
                            /\ runners'[p.id].activeOrders =
                                 runners[p.id].activeOrders + Cardinality(p.batch)
                            /\ \A r \in Runners \ {p.id} : runners'[r] = runners[r]
                        [] OTHER -> orders' = orders /\ runners' = runners]_vars

\* The activation handler has finished where 6 orders waited: 5 are assigned.
C19_Witness ==
    /\ procs = EmptyBag
    /\ budget.toggles = 0
    /\ \A o \in Orders : orders[o].status # "absent"
    /\ Cardinality({o \in Orders : orders[o].runner # NoRunner}) = 5
    /\ \E r \in Runners : runners[r].activeOrders = 5

\* C20: an assignment attempt that ends without a runner, of the creation
\* handler or of the ready handler, has emitted an operator alert for its
\* order when it ends; the steps of an attempt that assigns a runner emit none.
C20_AlertWhenNoRunner ==
    [][/\ (last'.h = "assignRunnerOnOrderCreated" /\ last'.pc = "sendSMS")
            => last'.id \in alerts'
       /\ (last'.h = "assignRunnerOnOrderReady" /\ last'.pc = "markWaiting")
            => last'.id \in alerts'
       /\ last'.pc \in {"writeOrder", "writeRunner"} => alerts' = alerts]_vars

C22_MissingRunnerCleanAbort ==
    [][\A p \in Pending :
         (/\ Actor(p) = last'
          /\ p.h \in {"updateRunnerOnOrderDelivered", "onRunnerAssignedToOrder"}
          /\ p.after.runner # NoRunner
          /\ ~runners[p.after.runner].exists)
         => /\ orders' = orders
            /\ runners' = runners
            /\ failures' = failures]_vars

\* C23: the store failed under the creation handler of an order after the
\* write of the order's runner and before the increment, the event was
\* delivered again and every handler has finished: the order references one
\* runner, that runner's activeOrders has grown by 1, from 0, and no other
\* runner's has grown.
C23_AbortThenRedeliverySafe ==
    \A o \in Orders :
        (procs = EmptyBag /\ <<"assignRunnerOnOrderCreated", o>> \in failures)
        => \E r \in Runners :
              /\ orders[o].runner = r
              /\ runners[r].activeOrders = 1
              /\ \A q \in Runners \ {r} : runners[q].activeOrders = 0

\* C24: an order whose deliveryTime is not two digits, a colon and two digits
\* is never given a runner, and no step of the handlers of its assignment
\* changes a counter of any runner.
C24_MalformedTimeRejected ==
    [][LET WellFormed(t) ==
               /\ Len(t) = 5
               /\ t[3] = ":"
               /\ \A i \in {1, 2, 4, 5} : t[i] \in Digits
       IN  \A o \in Orders :
               (orders[o].status # "absent" /\ ~WellFormed(orders[o].deliveryTime))
               => /\ orders'[o].runner = NoRunner
                  /\ (last'.id = o /\ last'.h \in {"assignRunnerOnOrderCreated",
                                                  "onRunnerAssignedToOrder"})
                       => \A r \in Runners :
                            /\ runners'[r].activeOrders = runners[r].activeOrders
                            /\ runners'[r].completedOrders = runners[r].completedOrders
                            /\ runners'[r].totalCompletedOrders =
                                 runners[r].totalCompletedOrders]_vars

\* C25: an invocation of assignRunnerOnOrderCreated that started when the
\* stored order had a runner already writes no runner into the order and
\* increments no runner: its steps leave the orders' runner fields and the
\* runners as they are.
C25_DecidesOnStoredOrder ==
    [][\A p \in Pending :
         (/\ Actor(p) = last'
          /\ p.h = "assignRunnerOnOrderCreated"
          /\ p.stale)
         => /\ \A o \in Orders : orders'[o].runner = orders[o].runner
            /\ runners' = runners]_vars

\* C26: in the creation-trigger revision, an order the creation handler has
\* marked waitingForRunner = true, finding no runner, and that has no runner
\* keeps having none at every step of the engine.
C26_WaitingIsFinal ==
    [][\A o \in Orders :
         (/\ rev = "created"
          /\ orders[o].runner = NoRunner
          /\ \/ o \in alerts
             \/ \E p \in Pending : /\ p.h = "assignRunnerOnOrderCreated"
                                   /\ p.id = o
                                   /\ p.pc = "sendSMS")
         => orders'[o].runner = NoRunner]_vars

\* C27: in the ready-trigger revision an order without a runner has turned
\* ready, assignRunnerOnOrderReady has given it runner R, nothing else was
\* written from outside and every handler has finished: R's activeOrders is 1
\* more than before the update, where it was 0.
C27_ReadyAssignmentCounted ==
    \A o \in Orders :
        (/\ rev = "ready"
         /\ procs = EmptyBag
         /\ budget = [InitBudget EXCEPT !.creates = @ - 1, !.statuses = @ - 1]
         /\ orders[o].status = "ready"
         /\ selected[o] # NoRunner
         /\ orders[o].runner = selected[o])
        => runners[selected[o]].activeOrders = 1

\* C28: findLeastBusyRunner returns none exactly when no runner is active, and
\* otherwise an active runner whose pair (completedOrders, activeOrders) is
\* lexicographically least among the active runners, whether or not that
\* runner holds an undelivered order for the same time.
C28_LeastBusyRunner ==
    \A p \in Pending :
        p.h = "assignRunnerOnOrderReady"
        => /\ p.pc = "markWaiting" => \A r \in Runners : ~runners[r].isActive
           /\ p.pc = "writeOrder"
                => /\ p.sel \in Runners
                   /\ runners[p.sel].isActive
                   /\ \A q \in Runners :
                        runners[q].isActive
                        => \/ runners[p.sel].completedOrders < runners[q].completedOrders
                           \/ /\ runners[p.sel].completedOrders =
                                   runners[q].completedOrders
                              /\ runners[p.sel].activeOrders <= runners[q].activeOrders

\* The selector has returned the runner of the fewest completed orders, who
\* has more active orders than another active runner and holds the undelivered
\* order for the same time.
C28_Witness ==
    \E p \in Pending :
        /\ p.h = "assignRunnerOnOrderReady"
        /\ p.pc = "writeOrder"
        /\ orders[2].runner = p.sel
        /\ orders[2].deliveryTime = p.after.deliveryTime
        /\ \E q \in Runners :
             /\ runners[q].isActive
             /\ runners[q].activeOrders < runners[p.sel].activeOrders

\* C29: the last step of an activation handler that has assigned a batch of
\* orders leaves its runner with isActive = false if the batch holds exactly 5
\* orders and with isActive = true otherwise, whatever the runner's
\* activeOrders.
C29_ActiveUnlessFullBatch ==
    [][(last'.h = "assignOrdersWhenRunnerActivates" /\ last'.pc = "updateRunner")
         => \E p \in Pending :
              /\ Actor(p) = last'
              /\ Cardinality(p.batch) \in 1..5
              /\ runners'[p.id].isActive = (Cardinality(p.batch) # 5)]_vars

\* A runner who had 2 active orders has been given 4 more and is left active
\* with 6.
C29_Witness ==
    /\ last.h = "assignOrdersWhenRunnerActivates"
    /\ last.pc = "updateRunner"
    /\ runners[last.id].isActive
    /\ runners[last.id].activeOrders = 6

\* C30: a run of resetDailyCompletedOrders changes the runners' completedOrders
\* and nothing else, and a run of resetMonthlyCompletedOrders their
\* totalCompletedOrders and nothing else: activeOrders, isActive, the other
\* completion counter and every order are as before.
C30_ResetsFrame ==
    [][/\ resetDailyCompletedOrders
            => /\ orders' = orders
               /\ \A r \in Runners :
                    runners'[r] = [runners[r] EXCEPT
                                     !.completedOrders = runners'[r].completedOrders]
       /\ resetMonthlyCompletedOrders
            => /\ orders' = orders
               /\ \A r \in Runners :
                    runners'[r] = [runners[r] EXCEPT
                                     !.totalCompletedOrders =
                                        runners'[r].totalCompletedOrders]]_vars

\* The monthly reset has run on runners that had completed orders and active
\* orders, on and off duty: totalCompletedOrders is 0 and the rest is kept.
C30_Witness ==
    /\ last = Env
    /\ budget.resets = ResetRuns - 1
    /\ \A r \in Runners :
         /\ runners[r].totalCompletedOrders = 0
         /\ runners[r].completedOrders > 0
         /\ runners[r].activeOrders > 0
    /\ \E r \in Runners : runners[r].isActive
    /\ \E r \in Runners : ~runners[r].isActive
    /\ orders[1].runner = 1

\* C31: no step of a handler of an order update that changes orderStatus to
\* cancelled or to completed, from any other status, on an order that has a
\* runner before and after, changes a runner's activeOrders, completedOrders
\* or totalCompletedOrders.
C31_ClosingChangesNoCounter ==
    [][\A p \in Pending :
         (/\ Actor(p) = last'
          /\ p.h \in {"onRunnerAssignedToOrder", "updateRunnerOnOrderDelivered",
                      "assignRunnerOnOrderReady"}
          /\ p.after.status \in {"cancelled", "completed"}
          /\ p.before.status # p.after.status
          /\ p.before.runner # NoRunner
          /\ p.after.runner = p.before.runner)
         => \A r \in Runners :
              /\ runners'[r].activeOrders = runners[r].activeOrders
              /\ runners'[r].completedOrders = runners[r].completedOrders
              /\ runners'[r].totalCompletedOrders = runners[r].totalCompletedOrders]_vars

\* One handler of the update of order 1 from picked to cancelled has returned
\* and the other is pending; runner 1 has the counters it had.
C31_Witness ==
    /\ last.h \in {"onRunnerAssignedToOrder", "assignRunnerOnOrderReady"}
    /\ last.id = 1
    /\ runners[1].activeOrders = 1
    /\ runners[1].completedOrders = 3
    /\ \E p \in Pending :
         /\ p.h = "updateRunnerOnOrderDelivered"
         /\ p.before.status = "picked"
         /\ p.after.status = "cancelled"
         /\ p.before.runner = 1
         /\ p.after.runner = 1

\* C32: under fair scheduling of the handlers and without store failures,
\* every order created without a runner eventually has its runner field set or
\* waitingForRunner = true.  The ordering flow creates the first MaxCreates
\* orders of the collection.
C32_EventuallyAssignedOrWaiting ==
    \A o \in 1..MaxCreates :
        (orders[o].status # "absent" /\ orders[o].runner = NoRunner)
          ~> (orders[o].runner # NoRunner \/ orders[o].waiting)

\* The creation handler of order 1, created without a runner for 12:00 while
\* the only runner on duty held an undelivered order for 12:30, has ended: the
\* order waits for a runner.
C32_Witness ==
    /\ last.h = "assignRunnerOnOrderCreated"
    /\ last.pc = "sendSMS"
    /\ last.id = 1
    /\ orders[1].runner = NoRunner
    /\ orders[1].waiting
    /\ runners[1].isActive
    /\ procs = EmptyBag

\* C33: after one write from outside, under fair scheduling, the handlers
\* run out: whenever an invocation is pending, eventually none is.  On the
\* way, no event emitted by a write of onRunnerAssignedToOrder or of
\* assignOrdersWhenRunnerActivates passes the guard of a handler, and an
\* event emitted by the runner write of updateRunnerOnOrderDelivered passes
\* no guard but that of assignOrdersWhenRunnerActivates.
C33_ChainIsFinite ==
    /\ [][LET Emitted == {q \in Pending' :
                            /\ q.pc = "start"
                            /\ CopiesIn(q, procs') > CopiesIn(q, procs)}
           IN  /\ last'.h \in {"onRunnerAssignedToOrder",
                               "assignOrdersWhenRunnerActivates"}
                    => \A q \in Emitted : ~Guard(q)
               /\ last'.h = "updateRunnerOnOrderDelivered"
                    => \A q \in Emitted :
                         Guard(q) => q.h = "assignOrdersWhenRunnerActivates"]_vars
    /\ (procs # EmptyBag) ~> (procs = EmptyBag)

\* In the ready-trigger revision the delivery of order 1 has put runner 1,
\* who was off duty at the cap, on duty again; the activation handler this
\* triggered has given the runner the two waiting orders, and no invocation
\* is left.
C33_Witness ==
    /\ rev = "ready"
    /\ procs = EmptyBag
    /\ budget = NoBudget
    /\ orders[1].status = "delivered"
    /\ orders[2].runner = 1
    /\ orders[3].runner = 1
    /\ runners[1].activeOrders = 6
    /\ runners[1].isActive

\* C34: no step of a handler sets isActive to true on a runner whose stored
\* isActive is false: a runner off duty stays off duty until a write from
\* outside puts the runner on duty.
C34_OffDutyStaysOffDuty ==
    [][\A r \in Runners :
         (last' # Env /\ ~runners[r].isActive) => ~runners'[r].isActive]_vars

\* C35: when a step writes runner R into an order's runner field, R's stored
\* isActive is true.
C35_AssignedRunnerIsActive ==
    [][\A o \in Orders :
         (orders'[o].runner # orders[o].runner /\ orders'[o].runner # NoRunner)
         => runners[orders'[o].runner].isActive]_vars

\* C36: once resetAvailability has called batch.commit(), the batch holds an
\* update for every menu item of every restaurant, and once the job has logged
\* its success every menu item is on sale.
C36_BatchCompleteAtCommit ==
    /\ job.committed => job.batch = UNION {ItemRefs(r) : r \in Restaurants}
    /\ job.logged = "success"
         => \A r \in Restaurants, i \in MenuItems :
              menu[r][i].exists => menu[r][i].isAvailable

====
